---- MODULE Spec2Model ----
(***************************************************************************)
(* Model of the vscode-drawio glue layer:                                  *)
(*   - SessionModel (features/LiveshareFeature/SessionModel.ts)            *)
(*   - CustomDrawioInstance (DrawioInstance/CustomDrawioInstance.ts)       *)
(*   - Config / DiagramConfig (Config.ts, here src/unnamed/part_000)       *)
(*                                                                         *)
(* JavaScript values are tagged records.  A JavaScript string is the       *)
(* sequence of its UTF-16 code units (numbers), so that JSON.stringify,    *)
(* JSON.parse, UTF-8 and base64 are computed unit by unit.  A JavaScript   *)
(* number is a double, kept as its sign and the shortest decimal that      *)
(* rounds to it (the digits Number::toString writes); JSON.parse rounds a  *)
(* numeral to the nearest double with exact arithmetic on decimal digits.  *)
(***************************************************************************)
EXTENDS Integers, Sequences, FiniteSets, TLC

VARIABLES
    viewStatesByPeerId,  \* SessionModel.viewStatesByPeerId: peerId -> entry | undefined
    lastApplied,         \* history: the latest update; for its last two applies in a
                         \* row, the set calls made and the entry found before
    lastViewState,       \* history: peerId -> newViewState of the latest updateViewState
    arrived,             \* CustomDrawioInstance: events handed to handleEvent, in order
    dispatched,          \* emitter.emit / super.handleEvent calls made, in order
    basePending,         \* super.handleEvent calls still awaited
    gv,                  \* the getVertices calls made, in call order: for each its
                         \* position, the requests it sent, its response and outcome
    knownPlugins,        \* the persisted knownPlugins setting (global target)
    addCalls,            \* addKnownPlugin calls awaiting their settings write
    decided,             \* history: pair -> allowed of the latest addKnownPlugin
    overlap,             \* history: the state of the current overlap of two calls
    nCalls,              \* number of addKnownPlugin calls made
    DEV,                 \* process.env.DEV === "1"
    localStorageSetting, \* the persisted local-storage setting
    pendingWrites,       \* local-storage values handed to the settings API, not landed
    lastSet              \* history: the map last handed to setLocalStorage

sessionVars == <<viewStatesByPeerId, lastApplied, lastViewState>>
drawioVars  == <<arrived, dispatched, basePending, gv>>
pluginVars  == <<knownPlugins, addCalls, decided, overlap, nCalls>>
storageVars == <<DEV, localStorageSetting, pendingWrites, lastSet>>
vars == <<sessionVars, drawioVars, pluginVars, storageVars>>

(***************************************************************************)
(* Bounds of the model.                                                    *)
(***************************************************************************)
MaxPeer == 2
MaxEvents == 2
MaxGetVertices == 2
MaxCalls == 3
MaxPendingWrites == 1

(***************************************************************************)
(* String literals: the code unit of each character written in the model.  *)
(***************************************************************************)
CharCode ==
    ("\n" :> 10) @@ (" " :> 32) @@ ("!" :> 33) @@ ("\"" :> 34) @@
    ("+" :> 43) @@ ("," :> 44) @@ ("-" :> 45) @@ ("." :> 46) @@ ("/" :> 47) @@
    ("0" :> 48) @@ ("1" :> 49) @@ ("2" :> 50) @@ ("3" :> 51) @@
    ("4" :> 52) @@ ("5" :> 53) @@ ("6" :> 54) @@ ("7" :> 55) @@
    ("8" :> 56) @@ ("9" :> 57) @@ (":" :> 58) @@ ("=" :> 61) @@
    ("A" :> 65) @@ ("B" :> 66) @@ ("C" :> 67) @@ ("D" :> 68) @@
    ("E" :> 69) @@ ("F" :> 70) @@ ("G" :> 71) @@ ("H" :> 72) @@
    ("I" :> 73) @@ ("J" :> 74) @@ ("K" :> 75) @@ ("L" :> 76) @@
    ("M" :> 77) @@ ("N" :> 78) @@ ("O" :> 79) @@ ("P" :> 80) @@
    ("Q" :> 81) @@ ("R" :> 82) @@ ("S" :> 83) @@ ("T" :> 84) @@
    ("U" :> 85) @@ ("V" :> 86) @@ ("W" :> 87) @@ ("X" :> 88) @@
    ("Y" :> 89) @@ ("Z" :> 90) @@ ("[" :> 91) @@ ("\\" :> 92) @@
    ("]" :> 93) @@ ("_" :> 95) @@
    ("a" :> 97) @@ ("b" :> 98) @@ ("c" :> 99) @@ ("d" :> 100) @@
    ("e" :> 101) @@ ("f" :> 102) @@ ("g" :> 103) @@ ("h" :> 104) @@
    ("i" :> 105) @@ ("j" :> 106) @@ ("k" :> 107) @@ ("l" :> 108) @@
    ("m" :> 109) @@ ("n" :> 110) @@ ("o" :> 111) @@ ("p" :> 112) @@
    ("q" :> 113) @@ ("r" :> 114) @@ ("s" :> 115) @@ ("t" :> 116) @@
    ("u" :> 117) @@ ("v" :> 118) @@ ("w" :> 119) @@ ("x" :> 120) @@
    ("y" :> 121) @@ ("z" :> 122) @@ ("{" :> 123) @@ ("}" :> 125)

\* The code unit of a character, and the string of a sequence of characters.
Ch(c) == CharCode[c]
Chars(cs) == [i \in 1..Len(cs) |-> CharCode[cs[i]]]

\* The characters the serializer and the parser look for.
DQUOTE == Ch("\"")
BACKSLASH == Ch("\\")
BACKSPACE == 8
TAB == 9
LINEFEED == Ch("\n")
FORMFEED == 12
RETURN == 13
REPLACEMENT == 65533

IsHighSurrogate(u) == u >= 55296 /\ u <= 56319
IsLowSurrogate(u) == u >= 56320 /\ u <= 57343
IsSurrogate(u) == u >= 55296 /\ u <= 57343

\* String.fromCodePoint(n): one code unit, or a surrogate pair above U+FFFF.
FromCodePoint(n) ==
    IF n < 65536 THEN <<n>>
    ELSE <<55296 + ((n - 65536) \div 1024), 56320 + ((n - 65536) % 1024)>>

HexDigits ==
    Chars(<<"0", "1", "2", "3", "4", "5", "6", "7", "8", "9",
            "a", "b", "c", "d", "e", "f">>)

\* The four lower-case hexadecimal digits of a code unit.
Hex4(u) ==
    <<HexDigits[(u \div 4096) + 1], HexDigits[((u \div 256) % 16) + 1],
      HexDigits[((u \div 16) % 16) + 1], HexDigits[(u % 16) + 1]>>

(***************************************************************************)
(* JavaScript values.                                                      *)
(***************************************************************************)
UNDEF == [t |-> "undefined"]
NONE == [t |-> "none"]
Bool(b) == [t |-> "boolean", b |-> b]
NULL == [t |-> "null"]
Str(s) == [t |-> "string", s |-> s]
Arr(items) == [t |-> "array", items |-> items]
Obj(props) == [t |-> "object", props |-> props]
Prop(k, v) == [k |-> k, v |-> v]

\* A finite double, by the shortest decimal that rounds to it:
\* (-1)^neg * digits * 10^exp, the digits read as a decimal numeral without
\* leading zeros; exp <= 0, and the last digit is not 0 when exp < 0.  So
\* 100 is the digits 1 0 0 with exp 0, and 1.5 the digits 1 5 with exp -1.
Number(neg, digits, exp) ==
    [t |-> "number", neg |-> neg, infinite |-> FALSE, digits |-> digits, exp |-> exp]

Infinity(neg) ==
    [t |-> "number", neg |-> neg, infinite |-> TRUE, digits |-> <<0>>, exp |-> 0]

RECURSIVE NatDigits(_)
NatDigits(n) == IF n < 10 THEN <<n>> ELSE Append(NatDigits(n \div 10), n % 10)

\* The number of an integer of the model.
Num(i) == Number(i < 0, NatDigits(IF i < 0 THEN 0 - i ELSE i), 0)

ZeroDigits(n) == [i \in 1..n |-> 0]

\* The digits before the zeros at the end.
StripTrailingZeros(ds) ==
    IF \A i \in 1..Len(ds) : ds[i] = 0 THEN <<>>
    ELSE SubSeq(ds, 1, CHOOSE i \in 1..Len(ds) :
                           ds[i] # 0 /\ \A j \in (i + 1)..Len(ds) : ds[j] = 0)

\* obj[key]: the value of the own property, undefined when there is none.
GetProp(obj, key) ==
    IF obj.t # "object" THEN UNDEF
    ELSE LET hit == {i \in 1..Len(obj.props) : obj.props[i].k = key}
         IN IF hit = {} THEN UNDEF
            ELSE obj.props[CHOOSE i \in hit : TRUE].v

(***************************************************************************)
(* Number::toString and JSON.stringify.                                    *)
(***************************************************************************)
DigitChars(ds) == [i \in 1..Len(ds) |-> Ch("0") + ds[i]]

NatToString(n) == DigitChars(NatDigits(n))

\* Number::toString(10) of the number 0.ds * 10^n, ds its significant digits:
\* plain notation while the decimal point lies within 21 digits to the right
\* or 6 zeros to the left, exponent notation otherwise.
FiniteToString(ds, n) ==
    LET k == Len(ds)
        cs == DigitChars(ds)
    IN IF k <= n /\ n <= 21 THEN cs \o DigitChars(ZeroDigits(n - k))
       ELSE IF 0 < n /\ n <= 21
       THEN SubSeq(cs, 1, n) \o <<Ch(".")>> \o SubSeq(cs, n + 1, k)
       ELSE IF -6 < n /\ n <= 0
       THEN <<Ch("0"), Ch(".")>> \o DigitChars(ZeroDigits(0 - n)) \o cs
       ELSE <<cs[1]>>
            \o (IF k > 1 THEN <<Ch(".")>> \o SubSeq(cs, 2, k) ELSE <<>>)
            \o <<Ch("e"), IF n - 1 < 0 THEN Ch("-") ELSE Ch("+")>>
            \o NatToString(IF n - 1 < 0 THEN 1 - n ELSE n - 1)

NumberToString(v) ==
    IF v.infinite
    THEN (IF v.neg THEN <<Ch("-")>> ELSE <<>>)
         \o Chars(<<"I", "n", "f", "i", "n", "i", "t", "y">>)
    ELSE IF v.digits = <<0>> THEN <<Ch("0")>>
    ELSE (IF v.neg THEN <<Ch("-")>> ELSE <<>>)
         \o FiniteToString(StripTrailingZeros(v.digits), Len(v.digits) + v.exp)

\* QuoteJSONString's escape of one code unit that is not part of a pair.
EscapeChar(u) ==
    CASE u = DQUOTE -> <<BACKSLASH, DQUOTE>>
      [] u = BACKSLASH -> <<BACKSLASH, BACKSLASH>>
      [] u = BACKSPACE -> <<BACKSLASH, Ch("b")>>
      [] u = FORMFEED -> <<BACKSLASH, Ch("f")>>
      [] u = LINEFEED -> <<BACKSLASH, Ch("n")>>
      [] u = RETURN -> <<BACKSLASH, Ch("r")>>
      [] u = TAB -> <<BACKSLASH, Ch("t")>>
      [] OTHER -> IF u < 32 \/ IsSurrogate(u)
                  THEN <<BACKSLASH, Ch("u")>> \o Hex4(u)
                  ELSE <<u>>

\* A surrogate pair is copied; a lone surrogate is escaped.
RECURSIVE EscapeFrom(_, _)
EscapeFrom(s, i) ==
    IF i > Len(s) THEN <<>>
    ELSE IF IsHighSurrogate(s[i]) /\ i < Len(s) /\ IsLowSurrogate(s[i + 1])
    THEN <<s[i], s[i + 1]>> \o EscapeFrom(s, i + 2)
    ELSE EscapeChar(s[i]) \o EscapeFrom(s, i + 1)

\* A string none of whose units is escaped or a surrogate is copied as it is.
EscapeChars(s) ==
    IF \A i \in 1..Len(s) :
          s[i] >= 32 /\ s[i] # DQUOTE /\ s[i] # BACKSLASH /\ ~IsSurrogate(s[i])
    THEN s ELSE EscapeFrom(s, 1)

kNull == Chars(<<"n", "u", "l", "l">>)
kTrue == Chars(<<"t", "r", "u", "e">>)
kFalse == Chars(<<"f", "a", "l", "s", "e">>)

RECURSIVE SerializeValue(_)
RECURSIVE SerializeItems(_, _)
RECURSIVE SerializeProps(_, _)

\* The elements of an array; undefined is written as null.
SerializeItems(items, first) ==
    IF items = <<>> THEN <<>>
    ELSE (IF first THEN <<>> ELSE <<Ch(",")>>)
         \o (IF Head(items).t = "undefined" THEN kNull
             ELSE SerializeValue(Head(items)))
         \o SerializeItems(Tail(items), FALSE)

\* The own properties in property order; one whose value is undefined is left out.
SerializeProps(props, first) ==
    IF props = <<>> THEN <<>>
    ELSE IF Head(props).v.t = "undefined" THEN SerializeProps(Tail(props), first)
    ELSE (IF first THEN <<>> ELSE <<Ch(",")>>)
         \o <<DQUOTE>> \o EscapeChars(Head(props).k) \o <<DQUOTE>> \o <<Ch(":")>> \o SerializeValue(Head(props).v)
         \o SerializeProps(Tail(props), FALSE)

\* A number that is not finite is written as null.
SerializeValue(v) ==
    CASE v.t = "number" -> IF v.infinite THEN kNull ELSE NumberToString(v)
      [] v.t = "boolean" -> IF v.b THEN kTrue ELSE kFalse
      [] v.t = "null" -> kNull
      [] v.t = "string" -> <<DQUOTE>> \o EscapeChars(v.s) \o <<DQUOTE>>
      [] v.t = "array" -> <<Ch("[")>> \o SerializeItems(v.items, TRUE) \o <<Ch("]")>>
      [] v.t = "object" -> <<Ch("{")>> \o SerializeProps(v.props, TRUE) \o <<Ch("}")>>

\* JSON.stringify(v): undefined for undefined, the JSON text otherwise.
JSONstringify(v) ==
    IF v.t = "undefined" THEN UNDEF ELSE Str(SerializeValue(v))

(***************************************************************************)
(* SessionModel.                                                           *)
(***************************************************************************)
Peers == 1..MaxPeer

kPeerId == Chars(<<"p", "e", "e", "r", "I", "d">>)
kViewState == Chars(<<"v", "i", "e", "w", "S", "t", "a", "t", "e">>)
kActiveUri == Chars(<<"a", "c", "t", "i", "v", "e", "U", "r", "i">>)
kCurrentCursor == Chars(<<"c", "u", "r", "r", "e", "n", "t", "C", "u", "r", "s", "o", "r">>)
kSelectedCellIds == Chars(<<"s", "e", "l", "e", "c", "t", "e", "d", "C", "e", "l", "l", "I", "d", "s">>)
Point(x, y) == Obj(<<Prop(Chars(<<"x">>), Num(x)), Prop(Chars(<<"y">>), Num(y))>>)

\* The inputs: the cursors a peer reports.
Cursors == {UNDEF, Point(0, 12)}

\* The view states reported: one uri, with no cursor and no selection or with
\* a cursor and a selection; the three fields in the two key orders a
\* producer may emit.
ViewStateObjects ==
    UNION {{Obj(<<Prop(kActiveUri, f[1]), Prop(kCurrentCursor, f[2]),
                  Prop(kSelectedCellIds, f[3])>>),
            Obj(<<Prop(kSelectedCellIds, f[3]), Prop(kCurrentCursor, f[2]),
                  Prop(kActiveUri, f[1])>>)} :
           f \in {<<u, c, s>> \in {Str(Chars(<<"f", "1">>))} \X Cursors
                                  \X {Arr(<<>>), Arr(<<Str(Chars(<<"c", "\"">>))>>)} :
                     c = UNDEF <=> s = Arr(<<>>)}}

SessionModelUpdates ==
    [kind : {"updateViewState"}, peerId : Peers, newViewState : {UNDEF} \cup ViewStateObjects]
    \cup [kind : {"removePeer"}, peerId : Peers]
    \cup [kind : {"updateCursor"}, peerId : Peers, cursorPosition : Cursors]

\* The candidate entry built by apply.
NewVal(update) ==
    Obj(<<Prop(kPeerId, Num(update.peerId)), Prop(kViewState, update.newViewState)>>)

\* Mutant: the candidate compared by reference, which no stored entry equals.
ShouldSetByReference(map, update) == map[update.peerId] # Num(update.peerId)

\* Mutant: only the view states compared, an absent entry read as undefined.
ShouldSetViewStateOnly(map, update) ==
    JSONstringify(GetProp(map[update.peerId], kViewState))
        # JSONstringify(update.newViewState)

\* Mutant: only the first update of a peer stored.
ShouldSetIfAbsent(map, update) == map[update.peerId] = UNDEF

\* The condition under which apply stores the candidate.
ShouldSet(map, update) ==
    JSONstringify(map[update.peerId]) # JSONstringify(NewVal(update))

\* Mutant: removePeer handled by deleting the entry.
applyRemovingPeer(map, update) ==
    IF update.kind = "updateViewState"
    THEN IF JSONstringify(map[update.peerId]) # JSONstringify(NewVal(update))
         THEN [map |-> [map EXCEPT ![update.peerId] = NewVal(update)], sets |-> 1]
         ELSE [map |-> map, sets |-> 0]
    ELSE IF update.kind = "removePeer"
    THEN [map |-> [map EXCEPT ![update.peerId] = UNDEF], sets |-> 0]
    ELSE [map |-> map, sets |-> 0]

\* SessionModel.apply: the map after the update, and the number of
\* ObservableMap.set calls made; each set stores a fresh object and so reports
\* one change to the observers.
apply(map, update) ==
    IF update.kind = "updateViewState"
    THEN IF ShouldSet(map, update)
         THEN [map |-> [map EXCEPT ![update.peerId] = NewVal(update)], sets |-> 1]
         ELSE [map |-> map, sets |-> 0]
    ELSE [map |-> map, sets |-> 0]

LastTwo(s) == IF Len(s) > 2 THEN SubSeq(s, Len(s) - 1, Len(s)) ELSE s

Apply(update) ==
    LET done == apply(viewStatesByPeerId, update)
        val == viewStatesByPeerId[update.peerId]
    IN
    /\ viewStatesByPeerId' = done.map
    /\ lastApplied' =
         IF lastApplied.update = update
         THEN [update |-> update,
               sets |-> LastTwo(Append(lastApplied.sets, done.sets)),
               before |-> LastTwo(Append(lastApplied.before, val))]
         ELSE [update |-> update, sets |-> <<done.sets>>, before |-> <<val>>]
    /\ lastViewState' =
         IF update.kind = "updateViewState"
         THEN [lastViewState EXCEPT ![update.peerId] = update.newViewState]
         ELSE lastViewState
    /\ UNCHANGED <<drawioVars, pluginVars, storageVars>>

SessionInit ==
    /\ viewStatesByPeerId = [p \in Peers |-> UNDEF]
    /\ lastApplied = [update |-> NONE, sets |-> <<>>, before |-> <<>>]
    /\ lastViewState = [p \in Peers |-> NONE]

SessionNext == \E update \in SessionModelUpdates : Apply(update)
(***************************************************************************)
(* CustomDrawioInstance.                                                   *)
(***************************************************************************)
Labels == {"A"}
VertexLists ==
    {<<>>, <<[id |-> "2", label |-> "A"]>>,
     <<[id |-> "2", label |-> "A"], [id |-> "3", label |-> "B"]>>}

\* The events the embedded component sends.
CustomDrawioEvents ==
    [event : {"nodeSelected"}, label : Labels, linkedData : {UNDEF, Str(Chars(<<"d">>))}]
    \cup [event : {"pluginLoaded"}, pluginId : {"p1"}]
    \cup [event : {"focusChanged"}, hasFocus : BOOLEAN]
    \cup [event : {"cursorChanged"}, position : Cursors]
    \cup [event : {"selectionChanged"}, selectedCellIds : {<<>>, <<"c1", "c2">>}]
    \cup [event : {"getVertices"}, vertices : {<<>>}]
    \cup [event : {"save"}]

\* Mutant: the selectionChanged branch missing.
handleEventNoSelection(evt) ==
    IF evt.event = "nodeSelected"
    THEN [to |-> "onNodeSelectedEmitter",
          arg |-> [label |-> evt.label, linkedData |-> evt.linkedData]]
    ELSE IF evt.event = "pluginLoaded"
    THEN [to |-> "onCustomPluginLoadedEmitter", arg |-> [pluginId |-> evt.pluginId]]
    ELSE IF evt.event = "focusChanged"
    THEN [to |-> "onFocusChangedEmitter", arg |-> [hasFocus |-> evt.hasFocus]]
    ELSE IF evt.event = "cursorChanged"
    THEN [to |-> "onCursorChangeEmitter", arg |-> [newPosition |-> evt.position]]
    ELSE [to |-> "super.handleEvent", arg |-> evt]

\* What handleEvent calls for one event: the emitter it emits on and the
\* argument, or super.handleEvent with the event itself.
handleEvent(evt) ==
    IF evt.event = "nodeSelected"
    THEN [to |-> "onNodeSelectedEmitter",
          arg |-> [label |-> evt.label, linkedData |-> evt.linkedData]]
    ELSE IF evt.event = "pluginLoaded"
    THEN [to |-> "onCustomPluginLoadedEmitter", arg |-> [pluginId |-> evt.pluginId]]
    ELSE IF evt.event = "focusChanged"
    THEN [to |-> "onFocusChangedEmitter", arg |-> [hasFocus |-> evt.hasFocus]]
    ELSE IF evt.event = "cursorChanged"
    THEN [to |-> "onCursorChangeEmitter", arg |-> [newPosition |-> evt.position]]
    ELSE IF evt.event = "selectionChanged"
    THEN [to |-> "onSelectionsChangedEmitter",
          arg |-> [selectedCellIds |-> evt.selectedCellIds]]
    ELSE [to |-> "super.handleEvent", arg |-> evt]

\* An event arrives and handleEvent runs up to its first suspension.
HandleEvent(evt) ==
    /\ Len(arrived) < MaxEvents
    /\ arrived' = Append(arrived, evt)
    /\ dispatched' = Append(dispatched, handleEvent(evt))
    /\ basePending' =
         IF handleEvent(evt).to = "super.handleEvent"
         THEN basePending + 1 ELSE basePending
    /\ UNCHANGED <<gv, sessionVars, pluginVars, storageVars>>

\* The awaited super.handleEvent completes.
BaseHandled ==
    /\ basePending > 0
    /\ basePending' = basePending - 1
    /\ UNCHANGED <<arrived, dispatched, gv, sessionVars, pluginVars, storageVars>>

\* The responses the channel may match to a getVertices request.
Responses ==
    [event : {"getVertices"}, vertices : VertexLists]
    \cup [event : {"nodeSelected"}, label : Labels, linkedData : {UNDEF}]
    \cup [event : {"export"}, vertices : {<<[id |-> "2", label |-> "A"]>>}]
    \cup [event : {"save"}]

\* Mutant: the tag not checked, a missing list read as empty.
getVerticesUnchecked(response) ==
    [pc |-> "resolved",
     value |-> IF "vertices" \in DOMAIN response THEN response.vertices ELSE <<>>]

\* getVertices after the awaited response: throw on a foreign tag, else the list.
getVertices(response) ==
    IF response.event # "getVertices"
    THEN [pc |-> "rejected", error |-> "Invalid Response"]
    ELSE [pc |-> "resolved", value |-> response.vertices]

\* getVertices is called: the call sends one getVertices action and awaits its
\* response; nothing keeps a call from starting while another is awaiting.
GetVerticesCall ==
    /\ Len(gv) < MaxGetVertices
    /\ gv' = Append(gv, [pc |-> "awaiting", sent |-> <<[action |-> "getVertices"]>>,
                         response |-> NONE, outcome |-> NONE])
    /\ UNCHANGED <<arrived, dispatched, basePending,
                   sessionVars, pluginVars, storageVars>>

\* The channel delivers the response matched to the i-th call, which settles.
GetVerticesSettle(i, response) ==
    /\ i \in 1..Len(gv)
    /\ gv[i].pc = "awaiting"
    /\ gv' = [gv EXCEPT ![i] = [@ EXCEPT !.pc = getVertices(response).pc,
                                         !.response = response,
                                         !.outcome = getVertices(response)]]
    /\ UNCHANGED <<arrived, dispatched, basePending,
                   sessionVars, pluginVars, storageVars>>

DrawioInit ==
    /\ arrived = <<>>
    /\ dispatched = <<>>
    /\ basePending = 0
    /\ gv = <<>>

DrawioNext ==
    \/ \E evt \in CustomDrawioEvents : HandleEvent(evt)
    \/ BaseHandled
    \/ GetVerticesCall
    \/ \E i \in 1..Len(gv), response \in Responses : GetVerticesSettle(i, response)

(***************************************************************************)
(* Config: known plugins.                                                  *)
(***************************************************************************)
PluginIds == {"p1", "p2"}
Fingerprints == {"f1", "f2"}
Pairs == PluginIds \X Fingerprints

\* _knownPlugins.get(): the persisted list, [] when the setting is absent.
KnownPluginsGet == knownPlugins

\* Array.prototype.find: the first element satisfying the test.
FindEntry(data, pluginId, fingerprint) ==
    LET hit == {i \in 1..Len(data) :
                  data[i].pluginId = pluginId /\ data[i].fingerprint = fingerprint}
    IN IF hit = {} THEN UNDEF
       ELSE data[CHOOSE i \in hit : \A j \in hit : i <= j]

isPluginAllowed(pluginId, fingerprint) ==
    LET entry == FindEntry(KnownPluginsGet, pluginId, fingerprint)
    IN IF entry = UNDEF THEN UNDEF ELSE Bool(entry.allowed)

KeepOther(p, pluginId, fingerprint) ==
    p.pluginId # pluginId \/ p.fingerprint # fingerprint

\* Mutant: the decision appended without filtering the pair's old entry out.
PluginsToWriteAppendOnly(data, pluginId, fingerprint, allowed) ==
    Append(data,
           [pluginId |-> pluginId, fingerprint |-> fingerprint, allowed |-> allowed])

\* The list addKnownPlugin hands to _knownPlugins.set.
PluginsToWrite(data, pluginId, fingerprint, allowed) ==
    Append(SelectSeq(data, LAMBDA p : KeepOther(p, pluginId, fingerprint)),
           [pluginId |-> pluginId, fingerprint |-> fingerprint, allowed |-> allowed])

\* addKnownPlugin up to its await: read, filter, push, start the settings write.
AddKnownPlugin(pluginId, fingerprint, allowed) ==
    /\ nCalls < MaxCalls
    /\ nCalls' = nCalls + 1
    /\ addCalls' = addCalls \cup
         {[n |-> nCalls + 1, pluginId |-> pluginId, fingerprint |-> fingerprint,
           allowed |-> allowed,
           plugins |-> PluginsToWrite(KnownPluginsGet, pluginId, fingerprint, allowed)]}
    /\ decided' = [decided EXCEPT ![<<pluginId, fingerprint>>] = Bool(allowed)]
    /\ overlap' =
         [ever |-> overlap.ever \/ addCalls # {},
          cur |-> IF /\ Cardinality(addCalls) = 1
                     /\ \E c \in addCalls :
                          c.pluginId # pluginId \/ c.fingerprint # fingerprint
                  THEN LET c == CHOOSE c \in addCalls : TRUE
                       IN [first |-> [pluginId |-> c.pluginId,
                                      fingerprint |-> c.fingerprint,
                                      allowed |-> c.allowed],
                           second |-> [pluginId |-> pluginId,
                                       fingerprint |-> fingerprint,
                                       allowed |-> allowed]]
                  ELSE NONE]
    /\ UNCHANGED <<knownPlugins, sessionVars, drawioVars, storageVars>>

\* The settings write of one call lands and its await completes.
KnownPluginsWritten(c) ==
    /\ c \in addCalls
    /\ knownPlugins' = c.plugins
    /\ addCalls' = addCalls \ {c}
    /\ UNCHANGED <<decided, overlap, nCalls, sessionVars, drawioVars, storageVars>>

PluginInit ==
    /\ knownPlugins = <<>>
    /\ addCalls = {}
    /\ decided = [pair \in Pairs |-> UNDEF]
    /\ overlap = [ever |-> FALSE, cur |-> NONE]
    /\ nCalls = 0

PluginNext ==
    \/ \E pluginId \in PluginIds, fingerprint \in Fingerprints, allowed \in BOOLEAN :
         AddKnownPlugin(pluginId, fingerprint, allowed)
    \/ \E c \in addCalls : KnownPluginsWritten(c)

(***************************************************************************)
(* UTF-8 and base64 (Buffer).                                              *)
(***************************************************************************)
\* Mutant: one byte per character ("latin1").
Latin1Char(cp) == <<cp % 256>>

\* The UTF-8 bytes of one code point.
Utf8Char(cp) ==
    IF cp < 128 THEN <<cp>>
    ELSE IF cp < 2048 THEN <<192 + (cp \div 64), 128 + (cp % 64)>>
    ELSE IF cp < 65536
    THEN <<224 + (cp \div 4096), 128 + ((cp \div 64) % 64), 128 + (cp % 64)>>
    ELSE <<240 + (cp \div 262144), 128 + ((cp \div 4096) % 64),
           128 + ((cp \div 64) % 64), 128 + (cp % 64)>>

\* A surrogate pair is one code point; a lone surrogate is written as U+FFFD.
RECURSIVE Utf8From(_, _)
Utf8From(s, i) ==
    IF i > Len(s) THEN <<>>
    ELSE IF IsHighSurrogate(s[i]) /\ i < Len(s) /\ IsLowSurrogate(s[i + 1])
    THEN Utf8Char(65536 + (s[i] - 55296) * 1024 + (s[i + 1] - 56320))
         \o Utf8From(s, i + 2)
    ELSE IF IsSurrogate(s[i]) THEN Utf8Char(REPLACEMENT) \o Utf8From(s, i + 1)
    ELSE Utf8Char(s[i]) \o Utf8From(s, i + 1)

\* Buffer.from(str, "utf-8"): the bytes of a string.
Utf8Encode(s) == Utf8From(s, 1)

\* What a lead byte announces: the number of continuation bytes, the range of
\* the first of them (which excludes overlong forms, surrogates and code
\* points above U+10FFFF) and the bits the lead carries; need = 0 for a byte
\* that cannot lead.
Utf8Lead(b) ==
    CASE b >= 194 /\ b <= 223 -> [need |-> 1, lo |-> 128, hi |-> 191, bits |-> b - 192]
      [] b = 224 -> [need |-> 2, lo |-> 160, hi |-> 191, bits |-> 0]
      [] b >= 225 /\ b <= 236 -> [need |-> 2, lo |-> 128, hi |-> 191, bits |-> b - 224]
      [] b = 237 -> [need |-> 2, lo |-> 128, hi |-> 159, bits |-> 13]
      [] b >= 238 /\ b <= 239 -> [need |-> 2, lo |-> 128, hi |-> 191, bits |-> b - 224]
      [] b = 240 -> [need |-> 3, lo |-> 144, hi |-> 191, bits |-> 0]
      [] b >= 241 /\ b <= 243 -> [need |-> 3, lo |-> 128, hi |-> 191, bits |-> b - 240]
      [] b = 244 -> [need |-> 3, lo |-> 128, hi |-> 143, bits |-> 4]
      [] OTHER -> [need |-> 0, lo |-> 0, hi |-> 0, bits |-> 0]

\* The j-th byte after the lead at i continues the sequence.
IsCont(bytes, i, j, lead) ==
    /\ i + j <= Len(bytes)
    /\ bytes[i + j] >= (IF j = 1 THEN lead.lo ELSE 128)
    /\ bytes[i + j] <= (IF j = 1 THEN lead.hi ELSE 191)

\* The number of bytes after the lead at i that continue the sequence.
ContCount(bytes, i, lead) ==
    Cardinality({m \in 1..lead.need : \A j \in 1..m : IsCont(bytes, i, j, lead)})

RECURSIVE ContBits(_, _, _, _)
ContBits(bytes, i, m, acc) ==
    IF m = 0 THEN acc
    ELSE ContBits(bytes, i + 1, m - 1, acc * 64 + (bytes[i + 1] - 128))

\* A well-formed sequence decodes to its code point; the longest prefix of an
\* ill-formed one that could begin a well-formed sequence decodes to one
\* U+FFFD, and decoding resumes at the byte after it.
RECURSIVE Utf8DecodeFrom(_, _)
Utf8DecodeFrom(bytes, i) ==
    IF i > Len(bytes) THEN <<>>
    ELSE IF bytes[i] < 128 THEN <<bytes[i]>> \o Utf8DecodeFrom(bytes, i + 1)
    ELSE LET lead == Utf8Lead(bytes[i])
             good == ContCount(bytes, i, lead)
         IN IF lead.need > 0 /\ good = lead.need
            THEN FromCodePoint(ContBits(bytes, i, lead.need, lead.bits))
                 \o Utf8DecodeFrom(bytes, i + lead.need + 1)
            ELSE <<REPLACEMENT>> \o Utf8DecodeFrom(bytes, i + good + 1)

\* buffer.toString("utf-8").
Utf8Decode(bytes) == Utf8DecodeFrom(bytes, 1)

Base64Chars ==
    Chars(<<
      "A", "B", "C", "D", "E", "F", "G", "H", "I", "J", "K", "L", "M", "N", "O", "P",
      "Q", "R", "S", "T", "U", "V", "W", "X", "Y", "Z", "a", "b", "c", "d", "e", "f",
      "g", "h", "i", "j", "k", "l", "m", "n", "o", "p", "q", "r", "s", "t", "u", "v",
      "w", "x", "y", "z", "0", "1", "2", "3", "4", "5", "6", "7", "8", "9", "+", "/"
    >>)

\* buffer.toString("base64"): three bytes to four characters, "=" padded.
RECURSIVE Base64Encode(_)
Base64Encode(bytes) ==
    IF bytes = <<>> THEN <<>>
    ELSE IF Len(bytes) = 1
    THEN <<Base64Chars[(bytes[1] \div 4) + 1],
           Base64Chars[((bytes[1] % 4) * 16) + 1], Ch("="), Ch("=")>>
    ELSE IF Len(bytes) = 2
    THEN <<Base64Chars[(bytes[1] \div 4) + 1],
           Base64Chars[((bytes[1] % 4) * 16 + (bytes[2] \div 16)) + 1],
           Base64Chars[((bytes[2] % 16) * 4) + 1], Ch("=")>>
    ELSE <<Base64Chars[(bytes[1] \div 4) + 1],
           Base64Chars[((bytes[1] % 4) * 16 + (bytes[2] \div 16)) + 1],
           Base64Chars[((bytes[2] % 16) * 4 + (bytes[3] \div 64)) + 1],
           Base64Chars[(bytes[3] % 64) + 1]>>
         \o Base64Encode(SubSeq(bytes, 4, Len(bytes)))

\* The decoder reads the low byte of each code unit.  Besides the standard
\* alphabet it takes "-" for 62 and "_" for 63 (base64url).
Base64Index(u) ==
    LET c == u % 256
    IN IF c = Ch("-") THEN 62
       ELSE IF c = Ch("_") THEN 63
       ELSE (CHOOSE i \in 1..Len(Base64Chars) : Base64Chars[i] = c) - 1

IsBase64Char(u) ==
    LET c == u % 256
    IN c = Ch("-") \/ c = Ch("_") \/ \E i \in 1..Len(Base64Chars) : Base64Chars[i] = c

\* The characters up to the first "=", those outside the alphabet skipped.
RECURSIVE Base64Sextets(_)
Base64Sextets(s) ==
    IF s = <<>> \/ Head(s) % 256 = Ch("=") THEN <<>>
    ELSE IF IsBase64Char(Head(s))
    THEN <<Base64Index(Head(s))>> \o Base64Sextets(Tail(s))
    ELSE Base64Sextets(Tail(s))

RECURSIVE SextetsToBytes(_)
SextetsToBytes(x) ==
    IF Len(x) < 2 THEN <<>>
    ELSE IF Len(x) = 2 THEN <<x[1] * 4 + (x[2] \div 16)>>
    ELSE IF Len(x) = 3
    THEN <<x[1] * 4 + (x[2] \div 16), (x[2] % 16) * 16 + (x[3] \div 4)>>
    ELSE <<x[1] * 4 + (x[2] \div 16), (x[2] % 16) * 16 + (x[3] \div 4),
           (x[3] % 4) * 64 + x[4]>>
         \o SextetsToBytes(SubSeq(x, 5, Len(x)))

\* new Buffer(str, "base64"): the bytes a base64 string stands for.
Base64Decode(s) == SextetsToBytes(Base64Sextets(s))

(***************************************************************************)
(* JSON.parse.                                                             *)
(***************************************************************************)
Fail == [ok |-> FALSE]
Ok(val, rest) == [ok |-> TRUE, val |-> val, rest |-> rest]

IsDigit(c) == c >= Ch("0") /\ c <= Ch("9")
DigitValue(c) == c - Ch("0")

\* The value of a hexadecimal digit, -1 for any other character.
HexValue(c) ==
    IF IsDigit(c) THEN DigitValue(c)
    ELSE IF c >= Ch("a") /\ c <= Ch("f") THEN c - Ch("a") + 10
    ELSE IF c >= Ch("A") /\ c <= Ch("F") THEN c - Ch("A") + 10
    ELSE 0 - 1

RECURSIVE SkipWs(_)
SkipWs(s) ==
    IF s # <<>> /\ Head(s) \in {Ch(" "), LINEFEED, TAB, RETURN} THEN SkipWs(Tail(s))
    ELSE s

StartsWith(s, prefix) ==
    Len(s) >= Len(prefix) /\ SubSeq(s, 1, Len(prefix)) = prefix

Drop(s, n) == SubSeq(s, n + 1, Len(s))

\* a < b for two decimal numerals without leading zeros: a is the shorter, or
\* the lesser at the first position where they differ.
NumeralLess(a, b) ==
    \/ Len(a) < Len(b)
    \/ /\ Len(a) = Len(b)
       /\ \E i \in 1..Len(a) : a[i] < b[i] /\ \A j \in 1..(i - 1) : a[j] = b[j]

\* 2^32 - 1, the first integer that is not an array index.
kIndexLimit == Chars(<<"4", "2", "9", "4", "9", "6", "7", "2", "9", "5">>)

\* An array index key: the canonical numeral of an integer below 2^32 - 1;
\* such keys come first, in ascending order.
IsIndexKey(k) ==
    /\ k # <<>>
    /\ \A i \in 1..Len(k) : IsDigit(k[i])
    /\ Len(k) = 1 \/ k[1] # Ch("0")
    /\ NumeralLess(k, kIndexLimit)

\* obj[k] = v on the property list of an ordinary object.
ObjSet(props, k, v) ==
    IF \E i \in 1..Len(props) : props[i].k = k
    THEN [i \in 1..Len(props) |-> IF props[i].k = k THEN Prop(k, v) ELSE props[i]]
    ELSE IF IsIndexKey(k)
    THEN LET before == {i \in 1..Len(props) :
                          IsIndexKey(props[i].k) /\ NumeralLess(props[i].k, k)}
             n == Cardinality(before)
         IN SubSeq(props, 1, n) \o <<Prop(k, v)>> \o SubSeq(props, n + 1, Len(props))
    ELSE Append(props, Prop(k, v))

\* The code unit a \uXXXX escape stands for, -1 when a digit is not hexadecimal.
HexUnit(s) ==
    IF \E i \in 1..4 : HexValue(s[i]) < 0 THEN 0 - 1
    ELSE HexValue(s[1]) * 4096 + HexValue(s[2]) * 256
         + HexValue(s[3]) * 16 + HexValue(s[4])

\* The characters of a string literal after its opening quote.
RECURSIVE ParseString(_, _)
ParseString(s, acc) ==
    IF s = <<>> THEN Fail
    ELSE IF Head(s) = DQUOTE THEN Ok(Str(acc), Tail(s))
    ELSE IF Head(s) = BACKSLASH
    THEN IF Len(s) < 2 THEN Fail
         ELSE CASE s[2] = DQUOTE -> ParseString(Drop(s, 2), Append(acc, DQUOTE))
                [] s[2] = BACKSLASH -> ParseString(Drop(s, 2), Append(acc, BACKSLASH))
                [] s[2] = Ch("/") -> ParseString(Drop(s, 2), Append(acc, Ch("/")))
                [] s[2] = Ch("b") -> ParseString(Drop(s, 2), Append(acc, BACKSPACE))
                [] s[2] = Ch("f") -> ParseString(Drop(s, 2), Append(acc, FORMFEED))
                [] s[2] = Ch("n") -> ParseString(Drop(s, 2), Append(acc, LINEFEED))
                [] s[2] = Ch("r") -> ParseString(Drop(s, 2), Append(acc, RETURN))
                [] s[2] = Ch("t") -> ParseString(Drop(s, 2), Append(acc, TAB))
                [] s[2] = Ch("u") ->
                      IF Len(s) < 6 \/ HexUnit(SubSeq(s, 3, 6)) < 0 THEN Fail
                      ELSE ParseString(Drop(s, 6),
                                       Append(acc, HexUnit(SubSeq(s, 3, 6))))
                [] OTHER -> Fail
    ELSE IF Head(s) < 32 THEN Fail
    ELSE ParseString(Tail(s), Append(acc, Head(s)))

\* The number of decimal digits at the front of s.
DigitCount(s) ==
    IF \A i \in 1..Len(s) : IsDigit(s[i]) THEN Len(s)
    ELSE (CHOOSE i \in 1..Len(s) :
              ~IsDigit(s[i]) /\ \A j \in 1..(i - 1) : IsDigit(s[j])) - 1

\* The decimal digits at the front of s, as numbers, after the digits acc.
ParseDigits(s, acc) ==
    Ok(acc \o [i \in 1..DigitCount(s) |-> DigitValue(s[i])], Drop(s, DigitCount(s)))

\* The digits after the zeros at the front.
StripLeadingZeros(ds) ==
    IF \A i \in 1..Len(ds) : ds[i] = 0 THEN <<>>
    ELSE SubSeq(ds, CHOOSE i \in 1..Len(ds) :
                        ds[i] # 0 /\ \A j \in 1..(i - 1) : ds[j] = 0, Len(ds))

(***************************************************************************)
(* Exact arithmetic on naturals written in decimal: a sequence of digits,  *)
(* the most significant first, without leading zeros; zero is <<0>>.       *)
(***************************************************************************)
Canonical(ds) == IF StripLeadingZeros(ds) = <<>> THEN <<0>> ELSE StripLeadingZeros(ds)

\* 2 * a: a digit below 5 passes no carry on, whatever carry it receives.
BigDouble(a) ==
    (IF a[1] >= 5 THEN <<1>> ELSE <<>>)
    \o [i \in 1..Len(a) |->
          (2 * a[i] + (IF i < Len(a) /\ a[i + 1] >= 5 THEN 1 ELSE 0)) % 10]

\* a * 2^k.
RECURSIVE MulPow2(_, _)
MulPow2(a, k) ==
    IF k <= 0 \/ a = <<0>> THEN a
    ELSE IF k = 1 THEN BigDouble(a)
    ELSE MulPow2(MulPow2(a, k \div 2), k - k \div 2)

\* a * 10^k, a itself for k <= 0.
TimesPow10(a, k) == IF a = <<0>> \/ k <= 0 THEN a ELSE a \o ZeroDigits(k)

\* The column right of i, nearest to it, where the digits of a and b do not
\* sum to 9 (0 when there is none): it decides the carry into column i.
CarryColumn(a, b, i) ==
    IF \A j \in (i + 1)..Len(a) : a[j] + b[j] = 9 THEN 0
    ELSE CHOOSE j \in (i + 1)..Len(a) :
             a[j] + b[j] # 9 /\ \A l \in (i + 1)..(j - 1) : a[l] + b[l] = 9

\* The sum, digit by digit, of two sequences of the same length that begin
\* with a zero.
AddDigits(a, b) ==
    [i \in 1..Len(a) |->
       LET j == CarryColumn(a, b, i)
       IN (a[i] + b[i] + (IF j = 0 THEN 0 ELSE (a[j] + b[j]) \div 10)) % 10]

\* a + b.
BigAdd(a, b) ==
    LET n == (IF Len(a) > Len(b) THEN Len(a) ELSE Len(b)) + 1
    IN Canonical(AddDigits(ZeroDigits(n - Len(a)) \o a, ZeroDigits(n - Len(b)) \o b))

\* The column right of i, nearest to it, where a and b differ (0 when there
\* is none): it decides the borrow from column i.
BorrowColumn(a, b, i) ==
    IF \A j \in (i + 1)..Len(a) : a[j] = b[j] THEN 0
    ELSE CHOOSE j \in (i + 1)..Len(a) :
             a[j] # b[j] /\ \A l \in (i + 1)..(j - 1) : a[l] = b[l]

\* The difference, digit by digit, of two sequences of the same length.
SubDigits(a, b) ==
    [i \in 1..Len(a) |->
       LET j == BorrowColumn(a, b, i)
       IN (10 + a[i] - b[i] - (IF j # 0 /\ a[j] < b[j] THEN 1 ELSE 0)) % 10]

\* a - b, for a >= b.
BigSub(a, b) == Canonical(SubDigits(a, ZeroDigits(Len(a) - Len(b)) \o b))

(***************************************************************************)
(* The double nearest to a decimal (strtod), as m * 2^e with m < 2^53.     *)
(***************************************************************************)
\* floor(r / s) and the remainder, for r < 10 * s.
RECURSIVE DivideDigit(_, _, _)
DivideDigit(r, s, d) ==
    IF NumeralLess(r, s) THEN [d |-> d, r |-> r]
    ELSE DivideDigit(BigSub(r, s), s, d + 1)

\* The quotient m of a division by b that left the remainder r2 / 2, rounded:
\* m + 1 when the remainder is above b / 2, or is b / 2 and m is odd; 2^53 is
\* 2^52 with the next exponent.
RoundQuotient(m, r2, b, e) ==
    IF NumeralLess(b, r2) \/ (r2 = b /\ m[Len(m)] % 2 = 1)
    THEN (IF BigAdd(m, <<1>>) = MulPow2(<<1>>, 53)
          THEN [m |-> MulPow2(<<1>>, 52), e |-> e + 1]
          ELSE [m |-> BigAdd(m, <<1>>), e |-> e])
    ELSE [m |-> m, e |-> e]

\* Long division of r by b, the quotient below 10^i after the digits acc.
RECURSIVE LongDivide(_, _, _, _, _)
LongDivide(r, b, e, i, acc) ==
    IF i = 0 THEN RoundQuotient(Canonical(acc), BigDouble(r), b, e)
    ELSE LET q == DivideDigit(r, TimesPow10(b, i - 1), 0)
         IN LongDivide(q.r, b, e, i - 1, Append(acc, q.d))

\* The least e from the given one on with a / b < 2^53, b doubling with e;
\* then the quotient, which has 16 digits at most.
RECURSIVE Normalise(_, _, _)
Normalise(a, b, e) ==
    IF NumeralLess(a, MulPow2(b, 53)) THEN LongDivide(a, b, e, 16, <<>>)
    ELSE Normalise(a, BigDouble(b), e + 1)

\* The double nearest to the decimal ds * 10^q, ds without leading zeros and
\* not zero, as m * 2^e with m < 2^53: the quotient of a = ds * 10^q * 2^-e
\* by b = 2^e / 10^q, rounded.  The search for e starts below it, 33219 / 10000
\* approximating log2(10), and not below -1074, the exponent of the least
\* double.
DecimalToBinary(ds, q) ==
    LET est == ((Len(ds) + q - 1) * 33219) \div 10000 - 54
        e == IF est < 0 - 1074 THEN 0 - 1074 ELSE est
    IN Normalise(MulPow2(TimesPow10(ds, q), 0 - e),
                 MulPow2(TimesPow10(<<1>>, 0 - q), e), e)

(***************************************************************************)
(* The shortest decimal that rounds to a double (Number::toString's digits)*)
(***************************************************************************)
\* r + mp reaches s: the upper end of the rounding interval is at or above
\* 1, the end itself belonging to the interval of an even m.
Reaches(r, mp, s, even) ==
    IF even THEN ~NumeralLess(BigAdd(r, mp), s) ELSE NumeralLess(s, BigAdd(r, mp))

RECURSIVE Generate(_, _, _, _, _, _)
\* The digit q.d is the last one when the decimal so far is inside the
\* interval (low) or the next one up is (high); of the two, the nearer.
Emit(q, s, mp, mm, even, acc, low, high) ==
    IF ~low /\ ~high THEN Generate(q.r, s, mp, mm, even, Append(acc, q.d))
    ELSE IF low /\ ~high THEN Append(acc, q.d)
    ELSE IF high /\ ~low THEN Append(acc, q.d + 1)
    ELSE IF NumeralLess(BigDouble(q.r), s) THEN Append(acc, q.d)
    ELSE IF NumeralLess(s, BigDouble(q.r)) THEN Append(acc, q.d + 1)
    ELSE Append(acc, q.d + (q.d % 2))

\* The digits of r / s, a value below 1 whose interval reaches mp / s up and
\* mm / s down.
Generate(r, s, mp, mm, even, acc) ==
    LET q == DivideDigit(TimesPow10(r, 1), s, 0)
    IN Emit(q, s, TimesPow10(mp, 1), TimesPow10(mm, 1), even, acc,
            IF even THEN ~NumeralLess(TimesPow10(mm, 1), q.r)
            ELSE NumeralLess(q.r, TimesPow10(mm, 1)),
            Reaches(q.r, TimesPow10(mp, 1), s, even))

\* The least k from the given one on with the interval below 10^k.
RECURSIVE Fixup(_, _, _, _, _, _)
Fixup(r, s, mp, mm, even, k) ==
    IF Reaches(r, mp, s, even) THEN Fixup(r, TimesPow10(s, 1), mp, mm, even, k + 1)
    ELSE [digits |-> Generate(r, s, mp, mm, even, <<>>), point |-> k]

\* The shortest digits ds, and the point n, with 0.ds * 10^n rounding to
\* the double m * 2^e; the search for n starts at k.  The double is r / s,
\* half the gap to the next double mp / s and to the one before mm / s;
\* u = 1 at a power of two, where the gap below is half the gap above.
ShortestDigits(m, e, k) ==
    LET u == IF m = MulPow2(<<1>>, 52) /\ e > 0 - 1074 THEN 1 ELSE 0
        up == IF e > 0 THEN e ELSE 0
        down == IF e < 0 THEN 0 - e ELSE 0
    IN Fixup(TimesPow10(MulPow2(m, up + 1 + u), 0 - k),
             TimesPow10(MulPow2(<<1>>, down + 1 + u), k),
             TimesPow10(MulPow2(<<1>>, up + u), 0 - k),
             TimesPow10(MulPow2(<<1>>, up), 0 - k),
             m[Len(m)] % 2 = 0, k)

(***************************************************************************)
(* From a numeral to its number.                                           *)
(***************************************************************************)
\* The value of an exponent's digits, which saturates at 1073741823
\* (INT_MAX / 2).  A string is shorter than 2^30 characters, so a numeral
\* with such an exponent is 0 or beyond every double whatever its other
\* digits are.
RECURSIVE ExponentValue(_, _)
ExponentValue(ds, acc) ==
    IF ds = <<>> THEN acc
    ELSE IF acc > 107374182 \/ (acc = 107374182 /\ Head(ds) > 3)
    THEN ExponentValue(Tail(ds), 1073741823)
    ELSE ExponentValue(Tail(ds), acc * 10 + Head(ds))

\* The number whose shortest decimal is 0.ds * 10^n.
FromShortest(neg, ds, n) ==
    IF n >= Len(ds) THEN Number(neg, ds \o ZeroDigits(n - Len(ds)), 0)
    ELSE Number(neg, ds, n - Len(ds))

\* The number of the double b.m * 2^b.e, which is beyond the greatest double,
\* (2^53 - 1) * 2^971, when its exponent is; the decimal it was rounded from
\* began at 10^(n - 1).
FromBinary(neg, b, n) ==
    IF b.m = <<0>> THEN Number(neg, <<0>>, 0)
    ELSE IF b.e > 971 THEN Infinity(neg)
    ELSE LET sh == ShortestDigits(b.m, b.e, n - 1)
         IN FromShortest(neg, sh.digits, sh.point)

\* The number of the decimal 0.digits * 10^n, the digits without zeros at
\* either end.  From 10^309 on it is beyond every double and below 10^-324
\* it is nearer to 0 than to the least double.  A decimal of at most 15
\* digits between 10^-307 and 10^308 is itself the shortest decimal of the
\* double nearest to it: such decimals lie further apart than the doubles.
FromDecimal(neg, digits, n) ==
    IF digits = <<>> THEN Number(neg, <<0>>, 0)
    ELSE IF n > 309 THEN Infinity(neg)
    ELSE IF n <= 0 - 324 THEN Number(neg, <<0>>, 0)
    ELSE IF Len(digits) <= 15 /\ n >= 0 - 306 /\ n <= 308
    THEN FromShortest(neg, digits, n)
    ELSE FromBinary(neg, DecimalToBinary(digits, n - Len(digits)), n)

\* The number of the numeral 0.ds * 10^point: the double nearest to it, the
\* even one of two equally near.
MakeNumber(neg, ds, point) ==
    FromDecimal(neg, StripTrailingZeros(StripLeadingZeros(ds)),
                point - (Len(ds) - Len(StripLeadingZeros(ds))))

\* The end of a number whose exponent has the digits e.val: one digit at least.
NumberEnd(neg, int, frac, eneg, e) ==
    IF e.val = <<>> THEN Fail
    ELSE Ok(MakeNumber(neg, int \o frac,
                       Len(int) + (IF eneg THEN 0 - ExponentValue(e.val, 0)
                                   ELSE ExponentValue(e.val, 0))),
            e.rest)

\* ([eE] [+-]? [0-9]+)? after the integer digits int and the fraction digits frac.
ParseExponent(neg, int, frac, s) ==
    IF s = <<>> \/ Head(s) \notin {Ch("e"), Ch("E")}
    THEN Ok(MakeNumber(neg, int \o frac, Len(int)), s)
    ELSE IF Len(s) >= 2 /\ s[2] \in {Ch("+"), Ch("-")}
    THEN NumberEnd(neg, int, frac, s[2] = Ch("-"), ParseDigits(Drop(s, 2), <<>>))
    ELSE NumberEnd(neg, int, frac, FALSE, ParseDigits(Tail(s), <<>>))

\* The end of a fraction with the digits f.val: one digit at least.
FractionEnd(neg, int, f) ==
    IF f.val = <<>> THEN Fail ELSE ParseExponent(neg, int, f.val, f.rest)

\* ("." [0-9]+)? after the integer digits i.val.
ParseFraction(neg, i) ==
    IF i.rest # <<>> /\ Head(i.rest) = Ch(".")
    THEN FractionEnd(neg, i.val, ParseDigits(Tail(i.rest), <<>>))
    ELSE ParseExponent(neg, i.val, <<>>, i.rest)

\* "0" | [1-9][0-9]*
ParseInteger(neg, d) ==
    IF d = <<>> \/ ~IsDigit(Head(d)) THEN Fail
    ELSE IF Head(d) = Ch("0") THEN ParseFraction(neg, Ok(<<0>>, Tail(d)))
    ELSE ParseFraction(neg, ParseDigits(d, <<>>))

\* "-"? ("0" | [1-9][0-9]*) ("." [0-9]+)? ([eE] [+-]? [0-9]+)?
ParseNumber(s) ==
    IF s # <<>> /\ Head(s) = Ch("-") THEN ParseInteger(TRUE, Tail(s))
    ELSE ParseInteger(FALSE, s)

RECURSIVE ParseValue(_)
RECURSIVE ParseElements(_, _)
RECURSIVE ParseMembers(_, _)

\* After an element: "]" ends the array, "," brings the next element.
ElementsNext(acc, r) ==
    IF r = <<>> THEN Fail
    ELSE IF Head(r) = Ch("]") THEN Ok(Arr(acc), Tail(r))
    ELSE IF Head(r) = Ch(",") THEN ParseElements(Tail(r), acc)
    ELSE Fail

ElementsEnd(acc, e) ==
    IF ~e.ok THEN Fail ELSE ElementsNext(Append(acc, e.val), SkipWs(e.rest))

\* The elements of an array after "[" or ",".
ParseElements(s, acc) == ElementsEnd(acc, ParseValue(s))

\* After a member: "}" ends the object, "," brings the next member.
MembersNext(props, r) ==
    IF r = <<>> THEN Fail
    ELSE IF Head(r) = Ch("}") THEN Ok(Obj(props), Tail(r))
    ELSE IF Head(r) = Ch(",") THEN ParseMembers(Tail(r), props)
    ELSE Fail

\* The member's value e is stored under its key.
MemberValue(props, key, e) ==
    IF ~e.ok THEN Fail
    ELSE MembersNext(ObjSet(props, key, e.val), SkipWs(e.rest))

MemberColon(props, key, s) ==
    IF s = <<>> \/ Head(s) # Ch(":") THEN Fail
    ELSE MemberValue(props, key, ParseValue(Tail(s)))

MemberKey(props, k) ==
    IF ~k.ok THEN Fail ELSE MemberColon(props, k.val.s, SkipWs(k.rest))

MemberStart(props, s) ==
    IF s = <<>> \/ Head(s) # DQUOTE THEN Fail
    ELSE MemberKey(props, ParseString(Tail(s), <<>>))

\* The members of an object after "{" or ",".
ParseMembers(s, props) == MemberStart(props, SkipWs(s))

\* After "{": the empty object or its members.
ObjectStart(r) ==
    IF r # <<>> /\ Head(r) = Ch("}") THEN Ok(Obj(<<>>), Tail(r))
    ELSE ParseMembers(r, <<>>)

\* After "[": the empty array or its elements.
ArrayStart(r) ==
    IF r # <<>> /\ Head(r) = Ch("]") THEN Ok(Arr(<<>>), Tail(r))
    ELSE ParseElements(r, <<>>)

\* The value at the front of s, s without leading whitespace.
ValueAt(s) ==
    IF s = <<>> THEN Fail
    ELSE IF Head(s) = DQUOTE THEN ParseString(Tail(s), <<>>)
    ELSE IF Head(s) = Ch("{") THEN ObjectStart(SkipWs(Tail(s)))
    ELSE IF Head(s) = Ch("[") THEN ArrayStart(SkipWs(Tail(s)))
    ELSE IF StartsWith(s, kTrue) THEN Ok(Bool(TRUE), Drop(s, 4))
    ELSE IF StartsWith(s, kFalse) THEN Ok(Bool(FALSE), Drop(s, 5))
    ELSE IF StartsWith(s, kNull) THEN Ok(NULL, Drop(s, 4))
    ELSE ParseNumber(s)

ParseValue(s) == ValueAt(SkipWs(s))

SyntaxError == [t |-> "throw", error |-> "SyntaxError"]
TypeError == [t |-> "throw", error |-> "TypeError"]

\* Only whitespace may follow the value.
ParseResult(r) == IF r.ok /\ SkipWs(r.rest) = <<>> THEN r.val ELSE SyntaxError

\* JSON.parse(text): the value, or a thrown SyntaxError.
JSONparse(text) == ParseResult(ParseValue(text))

(***************************************************************************)
(* DiagramConfig: local storage.                                           *)
(***************************************************************************)
TypeOf(v) ==
    CASE v.t \in {"object", "array", "null"} -> "object"
      [] OTHER -> v.t

\* ToBoolean: undefined, null, false, 0 and "" are falsy.
Truthy(v) ==
    CASE v.t \in {"undefined", "null"} -> FALSE
      [] v.t = "boolean" -> v.b
      [] v.t = "number" -> v.infinite \/ v.digits # <<0>>
      [] v.t = "string" -> v.s # <<>>
      [] OTHER -> TRUE

\* a.join(","): the elements' strings, "" for null and undefined.
RECURSIVE ToStringJS(_)
RECURSIVE JoinItems(_, _)
JoinItems(items, first) ==
    IF items = <<>> THEN <<>>
    ELSE (IF first THEN <<>> ELSE <<Ch(",")>>)
         \o (IF Head(items).t \in {"undefined", "null"} THEN <<>>
             ELSE ToStringJS(Head(items)))
         \o JoinItems(Tail(items), FALSE)

\* ToString, as JSON.parse applies it to its argument.
ToStringJS(v) ==
    CASE v.t = "string" -> v.s
      [] v.t = "number" -> NumberToString(v)
      [] v.t = "boolean" -> IF v.b THEN kTrue ELSE kFalse
      [] v.t = "null" -> kNull
      [] v.t = "undefined" -> Chars(<<"u", "n", "d", "e", "f", "i", "n", "e", "d">>)
      [] v.t = "array" -> JoinItems(v.items, TRUE)
      [] v.t = "object" ->
            Chars(<<"[", "o", "b", "j", "e", "c", "t", " ",
                    "O", "b", "j", "e", "c", "t", "]">>)

\* Object.entries(v): the own properties of an object, the elements of an
\* array and the code units of a string under their indices, none for a
\* number or a boolean.
EntriesOf(v) ==
    CASE v.t = "object" -> v.props
      [] v.t = "array" ->
            [i \in 1..Len(v.items) |-> Prop(NatToString(i - 1), v.items[i])]
      [] v.t = "string" ->
            [i \in 1..Len(v.s) |-> Prop(NatToString(i - 1), Str(<<v.s[i]>>))]
      [] OTHER -> <<>>

ValuesOf(obj) == {EntriesOf(obj)[i].v : i \in 1..Len(EntriesOf(obj))}

\* mapObject(obj, fn): the object with fn applied to each property value;
\* null and undefined have no entries to read.
mapObject(obj, fn) ==
    IF obj.t \in {"null", "undefined"} THEN TypeError
    ELSE Obj([i \in 1..Len(EntriesOf(obj)) |->
                Prop(EntriesOf(obj)[i].k, fn[EntriesOf(obj)[i].v])])

StringifyItem(item) == IF TypeOf(item) = "string" THEN item ELSE JSONstringify(item)

\* _localStorage's deserialize: an object is taken as it is, its values made
\* strings; anything else is decoded from base64 and parsed.  A falsy value
\* is read as ""; new Buffer rejects a truthy value that is not a string.
deserialize(value) ==
    IF TypeOf(value) = "object"
    THEN mapObject(value, [item \in ValuesOf(value) |-> StringifyItem(item)])
    ELSE LET arg == IF Truthy(value) THEN value ELSE Str(<<>>)
         IN IF arg.t # "string" THEN TypeError
            ELSE JSONparse(Utf8Decode(Base64Decode(arg.s)))

tryJsonParse(val) ==
    LET r == JSONparse(ToStringJS(val)) IN IF r = SyntaxError THEN val ELSE r

\* _localStorage's serializer: the parsed values under DEV, else the base64
\* of the JSON text; Buffer.from rejects the undefined that JSON.stringify
\* returns for undefined.
serialize(val, dev) ==
    IF dev
    THEN mapObject(val, [item \in ValuesOf(val) |-> tryJsonParse(item)])
    ELSE IF JSONstringify(val) = UNDEF THEN TypeError
    ELSE Str(Base64Encode(Utf8Encode(JSONstringify(val).s)))

\* The keys and values of the maps handed to setLocalStorage: quotes,
\* backslashes, control characters, characters of two, three and four UTF-8
\* bytes, a lone surrogate, JSON texts, index keys and the first numeral that
\* is not one.
MapKeys == {Chars(<<"k">>), Chars(<<"7">>), <<233, DQUOTE>>, kIndexLimit}
MapValues ==
    {<<>>, Chars(<<"a">>), <<DQUOTE>>, <<BACKSLASH>>, <<LINEFEED>>, <<BACKSPACE, 1>>,
     Chars(<<"1", "2">>), Chars(<<"\\", "n">>), <<8364, Ch("a")>>,
     Chars(<<"\"", "a", "\"">>), Chars(<<"{", "}">>), Chars(<<"[", "1", "]">>),
     kTrue, <<Ch("a"), Ch(" "), 233, BACKSLASH, DQUOTE>>,
     <<55357, 56832>>, <<55357>>, Chars(<<"1", ".", "5">>)}

RECURSIVE MakeObj(_)
MakeObj(pairs) ==
    IF pairs = <<>> THEN <<>>
    ELSE ObjSet(MakeObj(SubSeq(pairs, 1, Len(pairs) - 1)),
                pairs[Len(pairs)][1], Str(pairs[Len(pairs)][2]))

LocalStorageMaps ==
    {Obj(<<>>)}
    \cup {Obj(MakeObj(<<<<Chars(<<"k">>), v>>>>)) : v \in MapValues}
    \cup {Obj(MakeObj(<<<<k, v>>>>)) :
            k \in MapKeys, v \in {<<>>, <<Ch("a"), Ch(" "), 233, BACKSLASH, DQUOTE>>}}
    \cup {Obj(MakeObj(<<<<k1, <<DQUOTE>>>>, <<k2, <<Ch("a")>>>>>>)) :
            k1 \in MapKeys, k2 \in MapKeys}

\* get localStorage: the persisted setting, deserialized.
localStorage == deserialize(localStorageSetting)

\* setLocalStorage: the value is serialized and handed to the settings API; the
\* write is not awaited.
SetLocalStorage(value) ==
    /\ Len(pendingWrites) < MaxPendingWrites
    /\ pendingWrites' = Append(pendingWrites, serialize(value, DEV))
    /\ lastSet' = value
    /\ UNCHANGED <<DEV, localStorageSetting, sessionVars, drawioVars, pluginVars>>

\* The oldest pending settings write lands.
LocalStorageWritten ==
    /\ pendingWrites # <<>>
    /\ localStorageSetting' = Head(pendingWrites)
    /\ pendingWrites' = Tail(pendingWrites)
    /\ UNCHANGED <<DEV, lastSet, sessionVars, drawioVars, pluginVars>>

StorageInit ==
    /\ DEV \in BOOLEAN
    /\ localStorageSetting = Obj(<<>>)
    /\ pendingWrites = <<>>
    /\ lastSet = NONE

StorageNext ==
    \/ \E value \in LocalStorageMaps : SetLocalStorage(value)
    \/ LocalStorageWritten

(***************************************************************************)
(* Specifications: one per component, the others at rest.                  *)
(***************************************************************************)
Init == SessionInit /\ DrawioInit /\ PluginInit /\ StorageInit /\ DEV = FALSE

SessionSpec == Init /\ [][SessionNext]_vars
DrawioSpec == Init /\ [][DrawioNext]_vars
PluginSpec == Init /\ [][PluginNext]_vars

\* The local storage is checked with DEV set and unset.
InitAnyDev == SessionInit /\ DrawioInit /\ PluginInit /\ StorageInit
StorageSpec == InitAnyDev /\ [][StorageNext]_vars

(***************************************************************************)
(* Properties of SessionModel (under SessionSpec).                         *)
(***************************************************************************)
Last(s) == s[Len(s)]

\* key in obj, and the set of an object's keys.
HasProp(obj, key) ==
    obj.t = "object" /\ \E i \in 1..Len(obj.props) : obj.props[i].k = key

KeysOf(obj) == {obj.props[i].k : i \in 1..Len(obj.props)}

IsUpdateViewState == lastApplied.update # NONE /\ lastApplied.update.kind = "updateViewState"

AppliedTwice == IsUpdateViewState /\ Len(lastApplied.sets) = 2

\* Deep structural equality: objects by their keys and values whatever the key
\* order, arrays element by element, everything else by value.
RECURSIVE StructEq(_, _)
StructEq(a, b) ==
    IF a.t = "object" /\ b.t = "object"
    THEN /\ KeysOf(a) = KeysOf(b)
         /\ \A k \in KeysOf(a) : StructEq(GetProp(a, k), GetProp(b, k))
    ELSE IF a.t = "array" /\ b.t = "array"
    THEN /\ Len(a.items) = Len(b.items)
         /\ \A i \in 1..Len(a.items) : StructEq(a.items[i], b.items[i])
    ELSE a = b

\* C1 as stated: the same updateViewState applied twice in a row makes exactly
\* one ObservableMap.set call (and so one change notification) in total, and
\* the second apply makes none.
C1_ExactlyOneMutation ==
    AppliedTwice =>
        /\ lastApplied.sets[1] + lastApplied.sets[2] = 1
        /\ lastApplied.sets[2] = 0

\* C1 amended: the second of two identical updateViewState applies in a row
\* makes no set call and fires no notification; the first makes exactly one
\* when the entry stored before it was absent or serialised differently from
\* the candidate, and none when it already serialised the same.
C1_SecondApplyIsNoOp ==
    AppliedTwice =>
        /\ lastApplied.sets[2] = 0
        /\ lastApplied.sets[1] =
             (IF JSONstringify(lastApplied.before[1])
                   = JSONstringify(NewVal(lastApplied.update))
              THEN 0 ELSE 1)
        /\ viewStatesByPeerId[lastApplied.update.peerId] = lastApplied.before[2]

C1_Witness ==
    /\ AppliedTwice
    /\ lastApplied.update.newViewState = UNDEF
    /\ lastApplied.sets = <<1, 0>>

\* C2: the first updateViewState for a peer that has no entry stores the
\* candidate entry, whatever the new view state (undefined included).
C2_FirstUpdateStores ==
    (IsUpdateViewState /\ Last(lastApplied.before) = UNDEF) =>
        /\ Last(lastApplied.sets) = 1
        /\ viewStatesByPeerId[lastApplied.update.peerId] = NewVal(lastApplied.update)

C2_Witness ==
    /\ IsUpdateViewState
    /\ Last(lastApplied.before) = UNDEF
    /\ lastApplied.update.newViewState = UNDEF
    /\ viewStatesByPeerId[lastApplied.update.peerId] # UNDEF

\* C5: an updateViewState whose candidate entry is structurally equal to the
\* stored entry (same fields, same values, in whatever key order) makes no set
\* call and fires no notification.
C5_StructurallyEqualIsNoOp ==
    (IsUpdateViewState
     /\ StructEq(Last(lastApplied.before), NewVal(lastApplied.update))) =>
        Last(lastApplied.sets) = 0

\* C8: a removePeer or updateCursor update leaves the map as it is and fires
\* no notification; no apply removes a peer from the map; a stored cursor
\* changes only in an updateViewState for that peer.
C8_RemoveAndCursorAreNoOps ==
    [][LET update == lastApplied'.update
           cursor(entry) == GetProp(GetProp(entry, kViewState), kCurrentCursor)
       IN /\ update.kind \in {"removePeer", "updateCursor"} =>
                /\ viewStatesByPeerId' = viewStatesByPeerId
                /\ Last(lastApplied'.sets) = 0
          /\ \A p \in Peers :
                viewStatesByPeerId[p] # UNDEF => viewStatesByPeerId'[p] # UNDEF
          /\ \A p \in Peers :
                cursor(viewStatesByPeerId'[p]) # cursor(viewStatesByPeerId[p]) =>
                    update.kind = "updateViewState" /\ update.peerId = p
      ]_vars

C8_Witness ==
    /\ lastApplied.update # NONE
    /\ lastApplied.update.kind \in {"removePeer", "updateCursor"}
    /\ viewStatesByPeerId[lastApplied.update.peerId] # UNDEF
    /\ Last(lastApplied.before) = viewStatesByPeerId[lastApplied.update.peerId]

C9_EntryIsLatest ==
    \A p \in Peers :
        /\ viewStatesByPeerId[p] # UNDEF <=> lastViewState[p] # NONE
        /\ viewStatesByPeerId[p] # UNDEF =>
              /\ GetProp(viewStatesByPeerId[p], kPeerId) = Num(p)
              /\ HasProp(viewStatesByPeerId[p], kViewState)
              /\ StructEq(GetProp(viewStatesByPeerId[p], kViewState), lastViewState[p])

\* C9: the map has an entry for a peer exactly when an updateViewState for it
\* was applied; the entry carries its key as peerId and a view state
\* structurally equal to that of the peer's latest updateViewState (stored or
\* deduplicated); an update for one peer leaves every other entry as it was.
C9_LastWriterWins ==
    /\ []C9_EntryIsLatest
    /\ [][\A q \in Peers :
            q # lastApplied'.update.peerId =>
                viewStatesByPeerId'[q] = viewStatesByPeerId[q]]_vars

C9_Witness ==
    /\ AppliedTwice
    /\ lastApplied.sets = <<0, 0>>
    /\ lastApplied.update.newViewState # UNDEF
    /\ \A p \in Peers : viewStatesByPeerId[p] # UNDEF

(***************************************************************************)
(* Properties of CustomDrawioInstance (under DrawioSpec).                  *)
(***************************************************************************)
\* C3: every getVertices call, whether or not it overlaps another, sends its
\* request once; one whose matched response carries another tag ends rejected
\* with an error and no value; one whose response carries the tag getVertices
\* resolves to exactly the response's vertex list.
C3_GetVerticesOutcome ==
    \A i \in 1..Len(gv) :
        /\ gv[i].sent = <<[action |-> "getVertices"]>>
        /\ gv[i].pc \in {"awaiting", "resolved", "rejected"}
        /\ gv[i].pc = "awaiting" => gv[i].outcome = NONE
        /\ gv[i].pc # "awaiting" =>
              IF gv[i].response.event = "getVertices"
              THEN /\ gv[i].pc = "resolved"
                   /\ gv[i].outcome =
                        [pc |-> "resolved", value |-> gv[i].response.vertices]
              ELSE /\ gv[i].pc = "rejected"
                   /\ gv[i].outcome =
                        [pc |-> "rejected", error |-> "Invalid Response"]

C3_Witness ==
    /\ Len(gv) = 2
    /\ gv[1].pc = "awaiting"
    /\ gv[2].pc = "rejected"
    /\ gv[2].response.event = "export"
    /\ gv[2].outcome # [pc |-> "resolved", value |-> gv[2].response.vertices]

OwnChannel ==
    ("nodeSelected" :> "onNodeSelectedEmitter")
    @@ ("pluginLoaded" :> "onCustomPluginLoadedEmitter")
    @@ ("focusChanged" :> "onFocusChangedEmitter")
    @@ ("cursorChanged" :> "onCursorChangeEmitter")
    @@ ("selectionChanged" :> "onSelectionsChangedEmitter")

OwnPayload(evt) ==
    CASE evt.event = "nodeSelected" ->
            [label |-> evt.label, linkedData |-> evt.linkedData]
      [] evt.event = "pluginLoaded" -> [pluginId |-> evt.pluginId]
      [] evt.event = "focusChanged" -> [hasFocus |-> evt.hasFocus]
      [] evt.event = "cursorChanged" -> [newPosition |-> evt.position]
      [] evt.event = "selectionChanged" -> [selectedCellIds |-> evt.selectedCellIds]

\* C7: the i-th event to arrive causes the i-th call, and no other: for one of
\* the five own tags an emit on that tag's channel with the event's payload,
\* for any other tag a super.handleEvent with the event.
C7_Dispatch ==
    /\ Len(dispatched) = Len(arrived)
    /\ \A i \in 1..Len(arrived) :
          IF arrived[i].event \in DOMAIN OwnChannel
          THEN /\ dispatched[i].to = OwnChannel[arrived[i].event]
               /\ dispatched[i].arg = OwnPayload(arrived[i])
          ELSE /\ dispatched[i].to = "super.handleEvent"
               /\ dispatched[i].arg = arrived[i]
    /\ basePending <=
          Cardinality({i \in 1..Len(arrived) : arrived[i].event \notin DOMAIN OwnChannel})

C7_Witness ==
    /\ Len(arrived) = 2
    /\ arrived[1] = [event |-> "cursorChanged", position |-> UNDEF]
    /\ arrived[2].event = "save"
    /\ dispatched[1].to = "onCursorChangeEmitter"
    /\ dispatched[2].to = "super.handleEvent"

(***************************************************************************)
(* Properties of Config's known plugins (under PluginSpec).                *)
(***************************************************************************)
NoDuplicateKeys(data) ==
    \A i, j \in 1..Len(data) :
        (data[i].pluginId = data[j].pluginId
         /\ data[i].fingerprint = data[j].fingerprint) => i = j

C4_ReplaceByKeyState ==
    (~overlap.ever /\ addCalls = {}) =>
        /\ NoDuplicateKeys(knownPlugins)
        /\ \A pair \in Pairs : isPluginAllowed(pair[1], pair[2]) = decided[pair]

\* C4: after addKnownPlugin calls that did not overlap, the list holds at most
\* one entry per (pluginId, fingerprint), isPluginAllowed returns the latest
\* decision for a pair and undefined for a pair never added; a call's write
\* leaves the entries of the other pairs as they were, in their order.
C4_ReplaceByKey ==
    /\ []C4_ReplaceByKeyState
    /\ [][(~overlap.ever /\ addCalls # {} /\ addCalls' = {}) =>
            \A c \in addCalls :
                SelectSeq(knownPlugins',
                          LAMBDA p : KeepOther(p, c.pluginId, c.fingerprint))
                = SelectSeq(knownPlugins,
                            LAMBDA p : KeepOther(p, c.pluginId, c.fingerprint))]_vars

C4_Witness ==
    /\ ~overlap.ever
    /\ addCalls = {}
    /\ nCalls = 3
    /\ Len(knownPlugins) = 2
    /\ knownPlugins[2] = [pluginId |-> "p1", fingerprint |-> "f1", allowed |-> FALSE]
    /\ knownPlugins[1].pluginId = "p1"

\* C10: when two addKnownPlugin calls for different pairs overlap (the second
\* reads the setting before the first one's write has landed), then once both
\* have completed isPluginAllowed returns each call's decision.
C10_NoLostDecision ==
    (overlap.cur # NONE /\ addCalls = {}) =>
        /\ isPluginAllowed(overlap.cur.first.pluginId, overlap.cur.first.fingerprint)
             = Bool(overlap.cur.first.allowed)
        /\ isPluginAllowed(overlap.cur.second.pluginId, overlap.cur.second.fingerprint)
             = Bool(overlap.cur.second.allowed)

(***************************************************************************)
(* Properties of DiagramConfig's local storage (under StorageSpec).        *)
(***************************************************************************)
\* C6: outside the DEV encoding, deserialize(serialize(m)) = m for every map
\* handed to setLocalStorage; once its write has landed the persisted value
\* is the base64 of the UTF-8 JSON text of m, and localStorage reads m.
C6_LocalStorageRoundTrip ==
    (~DEV /\ lastSet # NONE) =>
        /\ deserialize(serialize(lastSet, DEV)) = lastSet
        /\ pendingWrites = <<>> =>
              /\ localStorageSetting.t = "string"
              /\ Utf8Decode(Base64Decode(localStorageSetting.s))
                   = SerializeValue(lastSet)
              /\ localStorage = lastSet

C6_Witness ==
    /\ ~DEV
    /\ pendingWrites = <<>>
    /\ lastSet = Obj(<<Prop(Chars(<<"k">>), Str(<<Ch("a"), Ch(" "), 233, BACKSLASH, DQUOTE>>))>>)
    /\ localStorageSetting.t = "string"
    /\ localStorage = lastSet

====
